---- MODULE Spec2Model ----
(***************************************************************************)
(* Rain VM (src/src/vm.rs): the version gate, the fetch-decode-execute     *)
(* loop of Machine::execute_bytes, its five instruction handlers, the      *)
(* register file and the final read of R0 in execute_bytes.                *)
(*                                                                         *)
(* A run is deterministic: Init draws the byte buffer, and every later     *)
(* step is one iteration of the loop (one whole handler).                  *)
(***************************************************************************)
EXTENDS Integers, Sequences, FiniteSets, TLC

VARIABLES
    prog,     \* v: Vec<u8>, the byte buffer given to execute_bytes
    cursor,   \* position of iter: offset of the next byte iter.next() yields
    file,     \* Machine.file: the HashMap<Reg, u32>, a function on its keys
    status,   \* "start" | "running" | "halted" | "failed": where the loop is
    result,   \* what execute_bytes returned: [kind, arg]; kind "Pending" before
    steps,    \* history: number of loop iterations begun (descriptor fetches tried)
    pcursor,  \* history: cursor when the latest loop iteration began
    pfile,    \* history: register file when the latest loop iteration began
    log,      \* history: the (register, word) pairs passed to insert, in order
    back      \* history: some BNZ was taken to a target at or before its own offset

vars == <<prog, cursor, file, status, result, steps, pcursor, pfile, log, back>>

(***************************************************************************)
(* Bounds of the model.                                                    *)
(***************************************************************************)
\* A buffer is a version byte followed by at most MaxInstrs segments.
MaxInstrs == 3
\* At most MaxDrop bytes are cut off the end of the buffer.
MaxDrop == 5
\* At most MaxSteps loop iterations are followed.
MaxSteps == 7

(***************************************************************************)
(* Program constants.                                                      *)
(***************************************************************************)
BYTE_VERSION == 1
SHIFT_OPCODE == 3
REGISTER_WIDTH == 31
OPCODE_MOVE == 0
OPCODE_HALT == 1
OPCODE_ADD == 2
OPCODE_BNZ == 3

\* 2^8: the values of a u8 are 0 .. U8 - 1.
U8 == 256
\* 2^16: a u32 is kept as two 16-bit halves, [hi, lo], of value hi * U16 + lo.
U16 == 65536

(***************************************************************************)
(* Integer operations of the source, at their width.                       *)
(***************************************************************************)
RECURSIVE Pow2(_)
Pow2(n) == IF n = 0 THEN 1 ELSE 2 * Pow2(n - 1)

\* a >> n
Shr(a, n) == a \div Pow2(n)

\* a << n on a u8
Shl8(a, n) == (a * Pow2(n)) % U8


RECURSIVE BitAnd(_, _)
BitAnd(a, b) ==
    IF a = 0 \/ b = 0 THEN 0
    ELSE (a % 2) * (b % 2) + 2 * BitAnd(a \div 2, b \div 2)

RECURSIVE BitOr(_, _)
BitOr(a, b) ==
    IF a = 0 THEN b
    ELSE IF b = 0 THEN a
    ELSE (IF a % 2 = 1 \/ b % 2 = 1 THEN 1 ELSE 0) + 2 * BitOr(a \div 2, b \div 2)

\* A u32 from a number below 2^31 (u8 -> u32 by .into(), usize -> u32).
Word(n) == [hi |-> n \div U16, lo |-> n % U16]

\* u <<= 8 on a u32
Shl32by8(u) == [hi |-> ((u.hi * 256) % U16) + (u.lo \div 256), lo |-> (u.lo * 256) % U16]

\* u |= n on a u32
BitOr32(u, n) == [hi |-> BitOr(u.hi, n.hi), lo |-> BitOr(u.lo, n.lo)]

\* Faulty variant: u32::saturating_add in place of wrapping_add.
saturating_add(a, b) ==
    LET lo == a.lo + b.lo
        hi == a.hi + b.hi + (lo \div U16)
    IN  IF hi >= U16 THEN [hi |-> U16 - 1, lo |-> U16 - 1]
        ELSE [hi |-> hi, lo |-> lo % U16]

\* u32::wrapping_add
wrapping_add(a, b) ==
    LET lo == a.lo + b.lo
        hi == a.hi + b.hi + (lo \div U16)
    IN  [hi |-> hi % U16, lo |-> lo % U16]

\* Faulty variant: v.len() < w as usize.
LenLt(n, w) == w.hi > 0 \/ n < w.lo

\* v.len() <= w as usize
LenLeq(n, w) == w.hi > 0 \/ n <= w.lo

\* w as usize, for a word below 2^31
AsUsize(w) == w.hi * U16 + w.lo

(***************************************************************************)
(* Errors and results.                                                     *)
(***************************************************************************)
\* A result is [kind, arg]; arg is the u32 it carries, a carried u8 (version,
\* opcode, register id) being widened to a u32, and Word(0) when it carries none.
Err(k, a) == [kind |-> k, arg |-> a]
NoErr == Err("None", Word(0))
Pending == Err("Pending", Word(0))
Ok(w) == Err("Ok", w)

MissingVersion == Err("MissingVersion", Word(0))
VersionMismatch(b) == Err("VersionMismatch", Word(b))
UnexpectedEndOfProgram == Err("UnexpectedEndOfProgram", Word(0))
NoResult == Err("NoResult", Word(0))
TruncatedU32 == Err("TruncatedU32", Word(0))
NoSuchInstruction(op) == Err("NoSuchInstruction", Word(op))
NoSuchRegister(r) == Err("NoSuchRegister", Word(r))
NowhereToJump(w) == Err("NowhereToJump", w)

(***************************************************************************)
(* The register file.                                                      *)
(***************************************************************************)
EmptyFile == [r \in {} |-> 0]

\* Faulty variant: a get that takes a stored zero for an empty slot.
FileGet_zero_absent(f, r) ==
    IF r \in DOMAIN f /\ f[r] # Word(0) THEN [some |-> TRUE, val |-> f[r]]
    ELSE [some |-> FALSE, val |-> Word(0)]

\* File::get: Option<u32>
FileGet(f, r) ==
    IF r \in DOMAIN f THEN [some |-> TRUE, val |-> f[r]]
    ELSE [some |-> FALSE, val |-> Word(0)]

\* File::insert
FileInsert(f, r, w) == [x \in (DOMAIN f) \cup {r} |-> IF x = r THEN w ELSE f[x]]

\* Machine::get
get(f, r) ==
    LET o == FileGet(f, r)
    IN  IF o.some THEN [err |-> NoErr, val |-> o.val]
        ELSE [err |-> NoSuchRegister(r), val |-> Word(0)]

\* Faulty variant: an insert that starts the map afresh.
insert_only(f, r, w) == [x \in {r} |-> w]

\* Faulty variant: an insert that keeps the value of a register already present.
insert_keep(f, r, w) == IF r \in DOMAIN f THEN f ELSE FileInsert(f, r, w)

\* Machine::insert
insert(f, r, w) == FileInsert(f, r, w)

(***************************************************************************)
(* The byte iterator.  An iterator over prog is the offset `it` of the     *)
(* next byte it yields; it yields None from Len(prog) on.                  *)
(***************************************************************************)
\* Faulty variant: an iterator that stays on the last byte of the buffer.
IterNext_sticky(it) ==
    IF it < Len(prog)
    THEN [some |-> TRUE, val |-> prog[it + 1], it |-> IF it + 1 < Len(prog) THEN it + 1 ELSE it]
    ELSE [some |-> FALSE, val |-> 0, it |-> it]

\* v.iter().skip(n).next()
IterNext(it) ==
    IF it < Len(prog) THEN [some |-> TRUE, val |-> prog[it + 1], it |-> it + 1]
    ELSE [some |-> FALSE, val |-> 0, it |-> it]

\* Faulty variant: must_next reporting the truncated-word error.
must_next_truncated(it) ==
    LET n == IterNext(it)
    IN  IF n.some THEN [err |-> NoErr, val |-> n.val, it |-> n.it]
        ELSE [err |-> TruncatedU32, val |-> 0, it |-> n.it]

\* must_next
must_next(it) ==
    LET n == IterNext(it)
    IN  IF n.some THEN [err |-> NoErr, val |-> n.val, it |-> n.it]
        ELSE [err |-> UnexpectedEndOfProgram, val |-> 0, it |-> n.it]

\* The loop of decode_u32 with k rounds left and accumulator u.
RECURSIVE decode_loop(_, _, _)
decode_loop(it, u, k) ==
    IF k = 0 THEN [err |-> NoErr, val |-> u, it |-> it]
    ELSE LET n == IterNext(it)
         IN  IF ~n.some THEN [err |-> TruncatedU32, val |-> Word(0), it |-> n.it]
             ELSE decode_loop(n.it, BitOr32(Shl32by8(u), Word(n.val)), k - 1)

\* Faulty variant: the loop of decode_u32 running over 0..3.
decode_u32_short(it) == decode_loop(it, Word(0), 3)

\* decode_u32
decode_u32(it) == decode_loop(it, Word(0), 4)

(***************************************************************************)
(* The instruction handlers.  Each takes the iterator and the register     *)
(* file and gives [err, it, file, wr]: the error (NoErr on Ok), where the  *)
(* iterator stands, the register file afterwards, and the pairs it passed  *)
(* to insert.                                                              *)
(***************************************************************************)
Fail(e, it, f) == [err |-> e, it |-> it, file |-> f, wr |-> <<>>]
Done(it, f, r, w) == [err |-> NoErr, it |-> it, file |-> insert(f, r, w), wr |-> <<(<<r, w>>)>>]

\* Faulty variant: mov_reg taking the source id from the descriptor bits alone.
mov_reg_no_lower(it, f, extra_bits) ==
    LET n == must_next(it)
    IN  IF n.err # NoErr THEN Fail(n.err, n.it, f)
        ELSE LET b == n.val
                 upper == Shl8(extra_bits, 3)
                 src == upper
                 v == get(f, src)
             IN  IF v.err # NoErr THEN Fail(v.err, n.it, f)
                 ELSE Done(n.it, f, BitAnd(b, 31), v.val)

\* Faulty variant: mov_reg reporting the destination register as the missing one.
mov_reg_wrong_id(it, f, extra_bits) ==
    LET n == must_next(it)
    IN  IF n.err # NoErr THEN Fail(n.err, n.it, f)
        ELSE LET b == n.val
                 lower == Shr(b, 5)
                 upper == Shl8(extra_bits, 3)
                 src == BitOr(lower, upper)
                 v == get(f, src)
             IN  IF v.err # NoErr THEN Fail(NoSuchRegister(BitAnd(b, 31)), n.it, f)
                 ELSE Done(n.it, f, BitAnd(b, 31), v.val)

\* Machine::mov_reg
mov_reg(it, f, extra_bits) ==
    LET n == must_next(it)
    IN  IF n.err # NoErr THEN Fail(n.err, n.it, f)
        ELSE LET b == n.val
                 lower == Shr(b, 5)
                 upper == Shl8(extra_bits, 3)
                 src == BitOr(lower, upper)
                 v == get(f, src)
             IN  IF v.err # NoErr THEN Fail(v.err, n.it, f)
                 ELSE Done(n.it, f, BitAnd(b, 31), v.val)

\* Faulty variant: mov_imm reserving the destination before decoding the word.
mov_imm_eager(it, f) ==
    LET n == must_next(it)
    IN  IF n.err # NoErr THEN Fail(n.err, n.it, f)
        ELSE LET r == BitAnd(n.val, 31)
                 w == decode_u32(n.it)
             IN  IF w.err # NoErr THEN Fail(w.err, w.it, insert(f, r, Word(0)))
                 ELSE Done(w.it, f, r, w.val)

\* Machine::mov_imm
mov_imm(it, f) ==
    LET n == must_next(it)
    IN  IF n.err # NoErr THEN Fail(n.err, n.it, f)
        ELSE LET r == BitAnd(n.val, 31)
                 w == decode_u32(n.it)
             IN  IF w.err # NoErr THEN Fail(w.err, w.it, f)
                 ELSE Done(w.it, f, r, w.val)

\* Faulty variant: add_reg taking the destination from the low 5 bits.
add_reg_low5(it, f, extra_bits) ==
    LET n == must_next(it)
    IN  IF n.err # NoErr THEN Fail(n.err, n.it, f)
        ELSE LET b == n.val
                 lower == Shr(b, 5)
                 upper == Shl8(extra_bits, 3)
                 src1 == BitOr(lower, upper)
                 src2 == BitAnd(b, 31)
                 d == must_next(n.it)
             IN  IF d.err # NoErr THEN Fail(d.err, d.it, f)
                 ELSE LET dest == BitAnd(d.val, 31)
                          v1 == get(f, src1)
                          v2 == get(f, src2)
                      IN  IF v1.err # NoErr THEN Fail(v1.err, d.it, f)
                          ELSE IF v2.err # NoErr THEN Fail(v2.err, d.it, f)
                          ELSE Done(d.it, f, dest, wrapping_add(v1.val, v2.val))

\* Machine::add_reg
add_reg(it, f, extra_bits) ==
    LET n == must_next(it)
    IN  IF n.err # NoErr THEN Fail(n.err, n.it, f)
        ELSE LET b == n.val
                 lower == Shr(b, 5)
                 upper == Shl8(extra_bits, 3)
                 src1 == BitOr(lower, upper)
                 src2 == BitAnd(b, 31)
                 d == must_next(n.it)
             IN  IF d.err # NoErr THEN Fail(d.err, d.it, f)
                 ELSE LET dest == Shr(d.val, 3)
                          v1 == get(f, src1)
                          v2 == get(f, src2)
                      IN  IF v1.err # NoErr THEN Fail(v1.err, d.it, f)
                          ELSE IF v2.err # NoErr THEN Fail(v2.err, d.it, f)
                          ELSE Done(d.it, f, dest, wrapping_add(v1.val, v2.val))

\* Machine::add_imm
add_imm(it, f, extra_bits) ==
    LET n == must_next(it)
    IN  IF n.err # NoErr THEN Fail(n.err, n.it, f)
        ELSE LET b == n.val
                 lower == Shr(b, 5)
                 upper == Shl8(extra_bits, 3)
                 src == BitOr(lower, upper)
                 w == decode_u32(n.it)
             IN  IF w.err # NoErr THEN Fail(w.err, w.it, f)
                 ELSE LET v == get(f, src)
                      IN  IF v.err # NoErr THEN Fail(v.err, w.it, f)
                          ELSE Done(w.it, f, BitAnd(b, 31), wrapping_add(v.val, w.val))

\* Faulty variant: bnz giving Some(v) whatever the test register holds.
bnz_always(it, f) ==
    LET n == must_next(it)
    IN  IF n.err # NoErr THEN [err |-> n.err, it |-> n.it, some |-> FALSE, val |-> Word(0)]
        ELSE LET r == BitAnd(n.val, REGISTER_WIDTH)
                 w == get(f, r)
             IN  IF w.err # NoErr THEN [err |-> w.err, it |-> n.it, some |-> FALSE, val |-> Word(0)]
                 ELSE LET v == decode_u32(n.it)
                      IN  IF v.err # NoErr
                          THEN [err |-> v.err, it |-> v.it, some |-> FALSE, val |-> Word(0)]
                          ELSE [err |-> NoErr, it |-> v.it, some |-> TRUE, val |-> v.val]

\* Faulty variant: bnz decoding the target word only when the branch is taken.
bnz_lazy(it, f) ==
    LET n == must_next(it)
    IN  IF n.err # NoErr THEN [err |-> n.err, it |-> n.it, some |-> FALSE, val |-> Word(0)]
        ELSE LET r == BitAnd(n.val, REGISTER_WIDTH)
                 w == get(f, r)
             IN  IF w.err # NoErr THEN [err |-> w.err, it |-> n.it, some |-> FALSE, val |-> Word(0)]
                 ELSE IF w.val = Word(0)
                 THEN [err |-> NoErr, it |-> n.it, some |-> FALSE, val |-> Word(0)]
                 ELSE LET v == decode_u32(n.it)
                      IN  IF v.err # NoErr
                          THEN [err |-> v.err, it |-> v.it, some |-> FALSE, val |-> Word(0)]
                          ELSE [err |-> NoErr, it |-> v.it, some |-> TRUE, val |-> v.val]

\* Machine::bnz: [err, it, some, val], Ok(Some(val)) or Ok(None)
bnz(it, f) ==
    LET n == must_next(it)
    IN  IF n.err # NoErr THEN [err |-> n.err, it |-> n.it, some |-> FALSE, val |-> Word(0)]
        ELSE LET r == BitAnd(n.val, REGISTER_WIDTH)
                 w == get(f, r)
             IN  IF w.err # NoErr THEN [err |-> w.err, it |-> n.it, some |-> FALSE, val |-> Word(0)]
                 ELSE LET v == decode_u32(n.it)
                      IN  IF v.err # NoErr
                          THEN [err |-> v.err, it |-> v.it, some |-> FALSE, val |-> Word(0)]
                          ELSE IF w.val = Word(0)
                          THEN [err |-> NoErr, it |-> v.it, some |-> FALSE, val |-> Word(0)]
                          ELSE [err |-> NoErr, it |-> v.it, some |-> TRUE, val |-> v.val]

\* Faulty variant: the arm refusing a target before the end of the BNZ.
bnz_arm_forward_only(it, f) ==
    LET j == bnz(it, f)
    IN  IF j.err # NoErr THEN Fail(j.err, j.it, f)
        ELSE IF ~j.some THEN [err |-> NoErr, it |-> j.it, file |-> f, wr |-> <<>>]
        ELSE IF LenLeq(Len(prog), j.val) \/ AsUsize(j.val) < j.it
        THEN Fail(NowhereToJump(j.val), j.it, f)
        ELSE [err |-> NoErr, it |-> AsUsize(j.val), file |-> f, wr |-> <<>>]

\* Faulty variant: the arm taking the target as an offset into the instruction
\* stream, after the version byte.
bnz_arm_stream(it, f) ==
    LET j == bnz(it, f)
    IN  IF j.err # NoErr THEN Fail(j.err, j.it, f)
        ELSE IF ~j.some THEN [err |-> NoErr, it |-> j.it, file |-> f, wr |-> <<>>]
        ELSE IF LenLeq(Len(prog), j.val) THEN Fail(NowhereToJump(j.val), j.it, f)
        ELSE [err |-> NoErr, it |-> AsUsize(j.val) + 1, file |-> f, wr |-> <<>>]

\* The OPCODE_BNZ arm of Machine::execute_bytes: the bounds check and the
\* repositioning of the iterator.
bnz_arm(it, f) ==
    LET j == bnz(it, f)
    IN  IF j.err # NoErr THEN Fail(j.err, j.it, f)
        ELSE IF ~j.some THEN [err |-> NoErr, it |-> j.it, file |-> f, wr |-> <<>>]
        ELSE IF LenLeq(Len(prog), j.val) THEN Fail(NowhereToJump(j.val), j.it, f)
        ELSE [err |-> NoErr, it |-> AsUsize(j.val), file |-> f, wr |-> <<>>]

\* Faulty variant: the read of R0 without map_err, the error of get passed on.
final_result_unmapped(f) ==
    LET g == get(f, 0)
    IN  IF g.err # NoErr THEN g.err ELSE Ok(g.val)

\* execute_bytes after Machine::execute_bytes returned Ok(()): the read of R0.
final_result(f) ==
    LET g == get(f, 0)
    IN  IF g.err # NoErr THEN NoResult ELSE Ok(g.val)

\* Faulty variant: a version gate that peeks at byte 0 without consuming it.
version_gate_peek(it) ==
    LET n == IterNext(it)
    IN  IF ~n.some THEN [err |-> MissingVersion, it |-> it]
        ELSE IF n.val # BYTE_VERSION THEN [err |-> VersionMismatch(n.val), it |-> it]
        ELSE [err |-> NoErr, it |-> it]

\* The version gate of Machine::execute_bytes on a fresh iterator.
version_gate(it) ==
    LET n == IterNext(it)
    IN  IF ~n.some THEN [err |-> MissingVersion, it |-> n.it]
        ELSE IF n.val # BYTE_VERSION THEN [err |-> VersionMismatch(n.val), it |-> n.it]
        ELSE [err |-> NoErr, it |-> n.it]

\* The opcode the loop matches on: b >> SHIFT_OPCODE.
opcode_of(b) == Shr(b, SHIFT_OPCODE)

\* The addressing-mode test of the MOVE and ADD arms: b & 0b100 == 0.
is_reg_form(b) == BitAnd(b, 4) = 0

\* Faulty variant: the catch-all arm carrying the whole descriptor byte.
default_arm_byte(b, op) == NoSuchInstruction(b)

\* The catch-all arm of the match: the matched value is the opcode.
default_arm(b, op) == NoSuchInstruction(op)

(***************************************************************************)
(* The inputs: byte buffers made of a version byte and instruction         *)
(* segments, cut short by up to MaxDrop bytes.                             *)
(***************************************************************************)
Versions == {1, 2}

Segments == {
    <<4, 0, 0, 0, 0, 42>>,            \* MOVE imm 42 -> R0
    <<4, 8, 255, 255, 255, 255>>,     \* MOVE imm 0xFFFFFFFF -> R8
    <<7, 232, 0, 0, 0, 0>>,           \* MOVE imm 0 -> R8 (unused bits of both bytes set)
    <<1, 0>>,                         \* MOVE R8 -> R0
    <<1, 35>>,                        \* MOVE R9 -> R3 (both halves of the source id set)
    <<17, 0, 7>>,                     \* ADD R8 + R0 -> R0 (low bits of the third byte set)
    <<21, 0, 0, 0, 0, 1>>,            \* ADD R8 + 1 -> R0
    <<20, 0, 0, 0, 0, 1>>,            \* ADD R0 + 1 -> R0
    <<8>>,                            \* HALT
    <<24, 8, 0, 0, 0, 0>>,            \* BNZ R8, 0
    <<24, 8, 0, 0, 0, 1>>,            \* BNZ R8, 1
    <<24, 8, 0, 0, 0, 7>>,            \* BNZ R8, 7
    <<24, 8, 0, 0, 0, 13>>,           \* BNZ R8, 13
    <<39>>                            \* opcode 4
}

RECURSIVE Flatten(_)
Flatten(ss) == IF ss = <<>> THEN <<>> ELSE Head(ss) \o Flatten(Tail(ss))

Truncate(s, d) == SubSeq(s, 1, IF Len(s) > d THEN Len(s) - d ELSE 0)

\* The buffer with version byte v and segments ss, cut short by d bytes.
Program(v, ss, d) == Truncate(<<v>> \o Flatten(ss), d)

(***************************************************************************)
(* The state machine.                                                      *)
(***************************************************************************)
\* execute_bytes: Machine::new() and the fresh iterator v.iter().skip(0).
Init ==
    /\ \E k \in 0..MaxInstrs : \E ss \in [1..k -> Segments] :
          \E v \in Versions, d \in 0..MaxDrop : prog = Program(v, ss, d)
    /\ cursor = 0
    /\ file = EmptyFile
    /\ status = "start"
    /\ result = Pending
    /\ steps = 0
    /\ pcursor = 0
    /\ pfile = EmptyFile
    /\ log = <<>>
    /\ back = FALSE

\* The version gate: the match on the first iter.next().
VersionGate ==
    /\ status = "start"
    /\ LET g == version_gate(cursor)
       IN  /\ cursor' = g.it
           /\ IF g.err = NoErr
              THEN status' = "running" /\ result' = result
              ELSE status' = "failed" /\ result' = g.err
    /\ UNCHANGED <<prog, file, steps, pcursor, pfile, log, back>>

\* The loop is about to fetch a descriptor byte.
Fetching == status = "running" /\ steps < MaxSteps

\* The result of the fetch: must_next(&mut iter).
Fetched == must_next(cursor)

\* The iterator stands at `it`, after the descriptor of a BNZ at offset at:
\* the branch is taken, to a target in the buffer at or before offset at.
taken_backward(it, f, at) ==
    LET j == bnz(it, f)
    IN  /\ j.err = NoErr
        /\ j.some
        /\ ~LenLeq(Len(prog), j.val)
        /\ AsUsize(j.val) <= at

\* One loop iteration whose arm gave r = [err, it, file, wr]; b tells whether
\* it was a branch taken backward.
Step(r, b) ==
    /\ steps' = steps + 1
    /\ pcursor' = cursor
    /\ pfile' = file
    /\ cursor' = r.it
    /\ file' = r.file
    /\ log' = log \o r.wr
    /\ back' = (back \/ b)
    /\ IF r.err = NoErr
       THEN status' = "running" /\ result' = result
       ELSE status' = "failed" /\ result' = r.err
    /\ UNCHANGED prog

\* One loop iteration of an arm that is no branch.
Iterate(r) == Step(r, FALSE)

\* The fetch fails: `?` on must_next at the top of the loop.
EndOfProgram ==
    /\ Fetching
    /\ Fetched.err # NoErr
    /\ Iterate(Fail(Fetched.err, Fetched.it, file))

\* OPCODE_MOVE, register form.
MovReg ==
    /\ Fetching
    /\ Fetched.err = NoErr
    /\ opcode_of(Fetched.val) = OPCODE_MOVE
    /\ is_reg_form(Fetched.val)
    /\ Iterate(mov_reg(Fetched.it, file, BitAnd(Fetched.val, 3)))

\* OPCODE_MOVE, immediate form.
MovImm ==
    /\ Fetching
    /\ Fetched.err = NoErr
    /\ opcode_of(Fetched.val) = OPCODE_MOVE
    /\ ~is_reg_form(Fetched.val)
    /\ Iterate(mov_imm(Fetched.it, file))

\* OPCODE_HALT: Machine::execute_bytes returns Ok(()) and execute_bytes reads R0.
Halt ==
    /\ Fetching
    /\ Fetched.err = NoErr
    /\ opcode_of(Fetched.val) = OPCODE_HALT
    /\ steps' = steps + 1
    /\ pcursor' = cursor
    /\ pfile' = file
    /\ cursor' = Fetched.it
    /\ status' = "halted"
    /\ result' = final_result(file)
    /\ UNCHANGED <<prog, file, log, back>>

\* OPCODE_ADD, register form.
AddReg ==
    /\ Fetching
    /\ Fetched.err = NoErr
    /\ opcode_of(Fetched.val) = OPCODE_ADD
    /\ is_reg_form(Fetched.val)
    /\ Iterate(add_reg(Fetched.it, file, BitAnd(Fetched.val, 3)))

\* OPCODE_ADD, immediate form.
AddImm ==
    /\ Fetching
    /\ Fetched.err = NoErr
    /\ opcode_of(Fetched.val) = OPCODE_ADD
    /\ ~is_reg_form(Fetched.val)
    /\ Iterate(add_imm(Fetched.it, file, BitAnd(Fetched.val, 3)))

\* OPCODE_BNZ.
Bnz ==
    /\ Fetching
    /\ Fetched.err = NoErr
    /\ opcode_of(Fetched.val) = OPCODE_BNZ
    /\ Step(bnz_arm(Fetched.it, file), taken_backward(Fetched.it, file, cursor))

\* Any other opcode.
UnknownOpcode ==
    /\ Fetching
    /\ Fetched.err = NoErr
    /\ opcode_of(Fetched.val) \notin {OPCODE_MOVE, OPCODE_HALT, OPCODE_ADD, OPCODE_BNZ}
    /\ Iterate(Fail(default_arm(Fetched.val, opcode_of(Fetched.val)), Fetched.it, file))

Next ==
    \/ VersionGate
    \/ EndOfProgram
    \/ MovReg
    \/ MovImm
    \/ Halt
    \/ AddReg
    \/ AddImm
    \/ Bnz
    \/ UnknownOpcode

Spec == Init /\ [][Next]_vars

(***************************************************************************)
(* Vocabulary of the properties: the instruction format as the             *)
(* specification states it, read off the buffer at the offset where the    *)
(* latest loop iteration began (pcursor), with the register file it began  *)
(* with (pfile).                                                           *)
(***************************************************************************)
\* A loop iteration has run: pcursor and pfile describe the latest one.
Ran == steps > 0

HasByte(o) == o < Len(prog)
ByteAt(o) == prog[o + 1]

\* The latest iteration fetched a descriptor byte.
Decoded == Ran /\ HasByte(pcursor)
Desc == ByteAt(pcursor)
DescOpcode == Desc \div 8
DescFlag == (Desc \div 4) % 2
DescLow2 == Desc % 4

\* The operand byte after the descriptor, and its two register fields.
HasOperand == HasByte(pcursor + 1)
Operand == ByteAt(pcursor + 1)
PackedReg == DescLow2 * 8 + Operand \div 32
LowReg == Operand % 32

\* The big-endian 32-bit word in bytes o .. o + 3, as [hi, lo].
HasWord(o) == HasByte(o + 3)
WordAt(o) == [hi |-> ByteAt(o) * 256 + ByteAt(o + 1), lo |-> ByteAt(o + 2) * 256 + ByteAt(o + 3)]
WordBelow(w, n) == w.hi = 0 /\ w.lo < n

\* (a + b) mod 2^32 on [hi, lo] words.
AddMod32(a, b) ==
    LET carry == IF a.lo + b.lo >= U16 THEN 1 ELSE 0
    IN  [hi |-> (a.hi + b.hi + carry) % U16, lo |-> (a.lo + b.lo) % U16]

WasMovReg == Decoded /\ DescOpcode = 0 /\ DescFlag = 0
WasMovImm == Decoded /\ DescOpcode = 0 /\ DescFlag = 1
WasHalt == Decoded /\ DescOpcode = 1
WasAddReg == Decoded /\ DescOpcode = 2 /\ DescFlag = 0
WasAddImm == Decoded /\ DescOpcode = 2 /\ DescFlag = 1
WasBnz == Decoded /\ DescOpcode = 3

Present(r) == r \in DOMAIN pfile
Failed(e) == status = "failed" /\ result = e
\* Register r is in the register file and holds w.
Holds(r, w) == r \in DOMAIN file /\ file[r] = w

\* The words written to register r so far, oldest first.
RECURSIVE WritesTo(_, _)
WritesTo(l, r) ==
    IF l = <<>> THEN <<>>
    ELSE IF Head(l)[1] = r THEN <<Head(l)[2]>> \o WritesTo(Tail(l), r)
    ELSE WritesTo(Tail(l), r)

R0Writes == WritesTo(log, 0)

(***************************************************************************)
(* C1.  A run that reaches a HALT descriptor after register 0 has been     *)
(* written returns Ok with the word most recently written to register 0    *)
(* by a MOVE or ADD, and no error.                                         *)
(***************************************************************************)
C1_HaltReturnsLastR0 ==
    (WasHalt /\ R0Writes # <<>>) =>
        /\ status = "halted"
        /\ result = Ok(R0Writes[Len(R0Writes)])

\* HALT after R0 was written twice, with different words.
C1_Witness ==
    /\ WasHalt
    /\ Len(R0Writes) >= 2
    /\ R0Writes[1] # R0Writes[Len(R0Writes)]
    /\ result = Ok(R0Writes[Len(R0Writes)])

(***************************************************************************)
(* C2.  A run that reaches a HALT descriptor while register 0 has never    *)
(* been written fails with NoResult, whatever other registers were         *)
(* written.                                                                *)
(***************************************************************************)
C2_HaltWithoutR0IsNoResult ==
    (WasHalt /\ R0Writes = <<>>) => result = NoResult

\* HALT with another register written and R0 not.
C2_Witness ==
    /\ WasHalt
    /\ R0Writes = <<>>
    /\ log # <<>>
    /\ result = NoResult

(***************************************************************************)
(* C3.  Version gate: an empty buffer fails MissingVersion; a buffer whose *)
(* byte 0 is not 1 fails VersionMismatch carrying that byte, no            *)
(* instruction having been fetched and the register file being empty;      *)
(* with byte 0 equal to 1 the first descriptor is fetched at offset 1.     *)
(***************************************************************************)
C3_VersionGate ==
    status # "start" =>
        /\ prog = <<>> => Failed(MissingVersion) /\ steps = 0 /\ file = EmptyFile
        /\ (prog # <<>> /\ prog[1] # 1) =>
               Failed(VersionMismatch(prog[1])) /\ steps = 0 /\ file = EmptyFile
        /\ (prog # <<>> /\ prog[1] = 1) =>
               /\ steps = 0 => status = "running" /\ cursor = 1
               /\ steps = 1 => pcursor = 1
               /\ result.kind \notin {"MissingVersion", "VersionMismatch"}

\* A buffer with instructions behind a wrong version byte was refused.
C3_Witness ==
    /\ Len(prog) > 1
    /\ prog[1] = 2
    /\ Failed(VersionMismatch(2))

(***************************************************************************)
(* C4.  Reading a register never written fails NoSuchRegister carrying     *)
(* its id.  As stated: every MOVE reg->reg, ADD reg+reg, ADD reg+imm or    *)
(* BNZ whose source or test register is absent fails that way.             *)
(***************************************************************************)
\* The register the instruction reads first among its absent ones.
C4_Absent ==
    IF (WasMovReg \/ WasAddReg \/ WasAddImm) /\ ~Present(PackedReg) THEN PackedReg
    ELSE LowReg

C4_ReadsAbsent ==
    /\ HasOperand
    /\ \/ (WasMovReg \/ WasAddImm) /\ ~Present(PackedReg)
       \/ WasAddReg /\ (~Present(PackedReg) \/ ~Present(LowReg))
       \/ WasBnz /\ ~Present(LowReg)

\* The claim as stated: violated by an ADD cut short before its last bytes.
C4_AbsentAlwaysNoSuchRegister ==
    C4_ReadsAbsent => Failed(NoSuchRegister(C4_Absent))

\* The bytes the handler consumes before its first register read are there:
\* the third byte of ADD reg+reg, the word of ADD reg+imm.
C4_DecodedBeforeRead ==
    /\ WasAddReg => HasByte(pcursor + 2)
    /\ WasAddImm => HasWord(pcursor + 2)

\* C4 amended: the same, for instructions whose bytes consumed before the
\* register read are all present.
C4_AbsentNoSuchRegister ==
    (C4_ReadsAbsent /\ C4_DecodedBeforeRead) => Failed(NoSuchRegister(C4_Absent))

\* An ADD reg+reg whose first source is present and whose second is absent.
C4_Witness ==
    /\ WasAddReg
    /\ HasByte(pcursor + 2)
    /\ Present(PackedReg)
    /\ ~Present(LowReg)
    /\ Failed(NoSuchRegister(LowReg))

(***************************************************************************)
(* C5.  ADD wraps: a successful ADD reg+reg or ADD reg+imm writes          *)
(* (a + b) mod 2^32 into the destination, and overflow is no error.        *)
(***************************************************************************)
C5_AddWraps ==
    /\ (WasAddReg /\ HasByte(pcursor + 2) /\ Present(PackedReg) /\ Present(LowReg)) =>
           /\ status = "running"
           /\ Holds(ByteAt(pcursor + 2) \div 8, AddMod32(pfile[PackedReg], pfile[LowReg]))
    /\ (WasAddImm /\ HasWord(pcursor + 2) /\ Present(PackedReg)) =>
           /\ status = "running"
           /\ Holds(LowReg, AddMod32(pfile[PackedReg], WordAt(pcursor + 2)))

\* 0xFFFFFFFF + 1 gave 0.
C5_Witness ==
    /\ WasAddImm
    /\ HasWord(pcursor + 2)
    /\ Present(PackedReg)
    /\ pfile[PackedReg] = [hi |-> 65535, lo |-> 65535]
    /\ WordAt(pcursor + 2) = [hi |-> 0, lo |-> 1]
    /\ status = "running"
    /\ file[LowReg] = [hi |-> 0, lo |-> 0]

(***************************************************************************)
(* C6.  BNZ with a nonzero test register and a fully decoded target t:     *)
(* t >= len(Program) fails NowhereToJump carrying t; t < len(Program)      *)
(* makes the cursor exactly t and leaves the register file unchanged.      *)
(***************************************************************************)
C6_Taken ==
    /\ WasBnz
    /\ HasWord(pcursor + 2)
    /\ Present(LowReg)
    /\ pfile[LowReg] # [hi |-> 0, lo |-> 0]

C6_BnzTaken ==
    C6_Taken =>
        LET t == WordAt(pcursor + 2)
        IN  IF WordBelow(t, Len(prog))
            THEN status = "running" /\ cursor = t.lo /\ file = pfile
            ELSE Failed(NowhereToJump(t)) /\ file = pfile

\* A taken branch to the last offset of the buffer.
C6_Witness ==
    /\ C6_Taken
    /\ WordAt(pcursor + 2) = [hi |-> 0, lo |-> Len(prog) - 1]
    /\ status = "running"
    /\ cursor = Len(prog) - 1

(***************************************************************************)
(* C7.  BNZ with a zero-valued test register falls through: it never       *)
(* jumps and never fails NowhereToJump, and the next descriptor fetched    *)
(* is 6 bytes after the BNZ descriptor.                                    *)
(***************************************************************************)
C7_NotTaken ==
    /\ WasBnz
    /\ HasWord(pcursor + 2)
    /\ Present(LowReg)
    /\ pfile[LowReg] = [hi |-> 0, lo |-> 0]

C7_BnzZeroFallsThrough ==
    C7_NotTaken => status = "running" /\ cursor = pcursor + 6 /\ file = pfile

\* A not-taken branch whose target lies outside the buffer.
C7_Witness ==
    /\ C7_NotTaken
    /\ ~WordBelow(WordAt(pcursor + 2), Len(prog))
    /\ status = "running"
    /\ cursor = pcursor + 6

(***************************************************************************)
(* C8.  The target word of BNZ is decoded on the not-taken path too: a     *)
(* BNZ whose test register holds 0 and which has fewer than 4 bytes after  *)
(* its register byte fails with the truncated-word error.                  *)
(***************************************************************************)
C8_ZeroAndCut ==
    /\ WasBnz
    /\ HasOperand
    /\ ~HasWord(pcursor + 2)
    /\ Present(LowReg)
    /\ pfile[LowReg] = [hi |-> 0, lo |-> 0]

C8_BnzZeroTruncated ==
    C8_ZeroAndCut => Failed(TruncatedU32)

C8_Witness ==
    /\ C8_ZeroAndCut
    /\ HasByte(pcursor + 2)
    /\ Failed(TruncatedU32)

(***************************************************************************)
(* C9.  A descriptor byte b with b >> 3 in 4..31 fails NoSuchInstruction   *)
(* carrying b >> 3 with the register file unchanged; with b >> 3 in 0..3   *)
(* that error does not occur.                                              *)
(***************************************************************************)
C9_NoSuchInstruction ==
    /\ (Decoded /\ DescOpcode >= 4) =>
           Failed(NoSuchInstruction(DescOpcode)) /\ file = pfile
    /\ result.kind = "NoSuchInstruction" => (Decoded /\ DescOpcode >= 4)

\* Opcode 4 in a byte that is not 4, after a register was written.
C9_Witness ==
    /\ Decoded
    /\ Desc = 39
    /\ pfile # EmptyFile
    /\ Failed(NoSuchInstruction(4))

(***************************************************************************)
(* C10.  With the cursor at len(Program) where a descriptor byte or a      *)
(* required single operand byte is expected, the run fails                 *)
(* UnexpectedEndOfProgram, also when R0 has been written.                  *)
(***************************************************************************)
C10_ByteMissing ==
    \/ Ran /\ pcursor = Len(prog)
    \/ Decoded /\ DescOpcode \in {0, 2, 3} /\ ~HasOperand
    \/ WasAddReg /\ HasOperand /\ ~HasByte(pcursor + 2)

C10_UnexpectedEnd ==
    C10_ByteMissing => Failed(UnexpectedEndOfProgram)

\* The run wrote R0 and then ran off the end of the buffer.
C10_Witness ==
    /\ Ran
    /\ pcursor = Len(prog)
    /\ 0 \in DOMAIN file
    /\ Failed(UnexpectedEndOfProgram)

(***************************************************************************)
(* decode_u32 on its own, as the unit test tests::test_decode_u32 calls    *)
(* it: on an iterator over a byte array, here at any offset of the array.  *)
(***************************************************************************)
\* The arrays have at most MaxBytes bytes.
MaxBytes == 5

\* The bytes of the arrays of test_decode_u32 that tell the four positions apart.
DecodeBytes == {0, 1, 18, 130, 255}

InitDecode ==
    /\ \E k \in 0..MaxBytes : prog \in [1..k -> DecodeBytes]
    /\ cursor \in 0..Len(prog)
    /\ file = EmptyFile
    /\ status = "start"
    /\ result = Pending
    /\ steps = 0
    /\ pcursor = 0
    /\ pfile = EmptyFile
    /\ log = <<>>
    /\ back = FALSE

\* decode_u32(&mut iter): the iterator afterwards and the Result.
Decode ==
    /\ status = "start"
    /\ LET r == decode_u32(cursor)
       IN  /\ cursor' = r.it
           /\ result' = IF r.err = NoErr THEN Ok(r.val) ELSE r.err
    /\ pcursor' = cursor
    /\ status' = "decoded"
    /\ UNCHANGED <<prog, file, steps, pfile, log, back>>

NextDecode == Decode

SpecDecode == InitDecode /\ [][NextDecode]_vars

(***************************************************************************)
(* C11.  Word decoding: with at least 4 bytes remaining [b0, b1, b2, b3,   *)
(* ...] decode_u32 returns b0*2^24 + b1*2^16 + b2*2^8 + b3 and consumes    *)
(* exactly 4 bytes; with 0 to 3 bytes remaining it fails with the          *)
(* truncated-word error, whatever the bytes.                               *)
(***************************************************************************)
C11_DecodeU32 ==
    status = "decoded" =>
        IF HasWord(pcursor)
        THEN result = Ok(WordAt(pcursor)) /\ cursor = pcursor + 4
        ELSE result = TruncatedU32

\* [1, 0, 18, 1, x] decoded from its start: 16781825, the fifth byte unread.
C11_Witness ==
    /\ status = "decoded"
    /\ Len(prog) = 5
    /\ pcursor = 0
    /\ SubSeq(prog, 1, 4) = <<1, 0, 18, 1>>
    /\ result = Ok([hi |-> 256, lo |-> 4609])
    /\ cursor = 4

(***************************************************************************)
(* More vocabulary: the zero word, and a step that wrote one register.     *)
(***************************************************************************)
Zero == [hi |-> 0, lo |-> 0]

\* The register file is pfile with register r set to w and nothing else changed.
OnlyWrote(r, w) ==
    /\ DOMAIN file = DOMAIN pfile \cup {r}
    /\ file[r] = w
    /\ \A x \in DOMAIN pfile \ {r} : file[x] = pfile[x]

(***************************************************************************)
(* C12.  Absence is distinguishable from zero: a register written with 0   *)
(* is present, so reading it as MOVE/ADD source or BNZ test succeeds with  *)
(* value 0 (BNZ falls through) and HALT after writing 0 to R0 returns 0;   *)
(* the same reads of a never-written register fail NoSuchRegister /        *)
(* NoResult.                                                               *)
(***************************************************************************)
C12_ZeroIsPresent ==
    /\ (WasMovReg /\ HasOperand) =>
           IF ~Present(PackedReg) THEN Failed(NoSuchRegister(PackedReg))
           ELSE pfile[PackedReg] = Zero => status = "running" /\ Holds(LowReg, Zero)
    /\ (WasAddImm /\ HasWord(pcursor + 2)) =>
           IF ~Present(PackedReg) THEN Failed(NoSuchRegister(PackedReg))
           ELSE pfile[PackedReg] = Zero =>
                    status = "running" /\ Holds(LowReg, WordAt(pcursor + 2))
    /\ (WasAddReg /\ HasByte(pcursor + 2) /\ Present(LowReg)) =>
           IF ~Present(PackedReg) THEN Failed(NoSuchRegister(PackedReg))
           ELSE pfile[PackedReg] = Zero =>
                    status = "running" /\ Holds(ByteAt(pcursor + 2) \div 8, pfile[LowReg])
    /\ (WasBnz /\ HasWord(pcursor + 2)) =>
           IF ~Present(LowReg) THEN Failed(NoSuchRegister(LowReg))
           ELSE pfile[LowReg] = Zero => status = "running" /\ cursor = pcursor + 6
    /\ WasHalt =>
           IF 0 \notin DOMAIN pfile THEN result = NoResult
           ELSE pfile[0] = Zero => status = "halted" /\ result = Ok(Zero)

\* HALT after the word 0 was moved into R0.
C12_Witness ==
    /\ WasHalt
    /\ 0 \in DOMAIN pfile
    /\ pfile[0] = Zero
    /\ result = Ok(Zero)

(***************************************************************************)
(* C13.  Register-id packing: with descriptor byte d and operand byte b of *)
(* a MOVE reg->reg, ADD reg+reg or ADD reg+imm, the source register read   *)
(* is ((d & 3) << 3) | (b >> 5) and the second field is b & 31 (dest for   *)
(* MOVE reg->reg and ADD reg+imm, src2 for ADD reg+reg); a successful      *)
(* MOVE reg->reg leaves dest holding the source's value and every other    *)
(* register unchanged.                                                     *)
(***************************************************************************)
C13_RegisterPacking ==
    /\ (WasMovReg /\ HasOperand) =>
           IF ~Present(PackedReg) THEN Failed(NoSuchRegister(PackedReg))
           ELSE status = "running" /\ OnlyWrote(LowReg, pfile[PackedReg])
    /\ (WasAddReg /\ HasByte(pcursor + 2)) =>
           IF ~Present(PackedReg) THEN Failed(NoSuchRegister(PackedReg))
           ELSE IF ~Present(LowReg) THEN Failed(NoSuchRegister(LowReg))
           ELSE /\ status = "running"
                /\ Holds(ByteAt(pcursor + 2) \div 8, AddMod32(pfile[PackedReg], pfile[LowReg]))
    /\ (WasAddImm /\ HasWord(pcursor + 2)) =>
           IF ~Present(PackedReg) THEN Failed(NoSuchRegister(PackedReg))
           ELSE /\ status = "running"
                /\ Holds(LowReg, AddMod32(pfile[PackedReg], WordAt(pcursor + 2)))

\* A MOVE whose source id comes from the descriptor bits wrote a second register.
C13_Witness ==
    /\ WasMovReg
    /\ HasOperand
    /\ DescLow2 # 0
    /\ Present(PackedReg)
    /\ LowReg \notin DOMAIN pfile
    /\ status = "running"
    /\ OnlyWrote(LowReg, pfile[PackedReg])

(***************************************************************************)
(* C14.  Cursor advance: after a successfully executed instruction that is *)
(* not a taken branch the cursor has advanced by the length of its form    *)
(* (MOVE reg->reg 2, MOVE imm->reg 6, ADD reg+reg->reg 3, ADD reg+imm->reg *)
(* 6, BNZ not taken 6); so it strictly increases on every step but a       *)
(* taken BNZ, and it never exceeds len(Program).                           *)
(***************************************************************************)
C14_TakenBranch == WasBnz /\ pfile[LowReg] # Zero

C14_CursorAdvance ==
    /\ cursor <= Len(prog)
    /\ (Ran /\ status = "running") =>
           /\ WasMovReg => cursor = pcursor + 2
           /\ WasMovImm => cursor = pcursor + 6
           /\ WasAddReg => cursor = pcursor + 3
           /\ WasAddImm => cursor = pcursor + 6
           /\ (WasBnz /\ ~C14_TakenBranch) => cursor = pcursor + 6
           /\ ~C14_TakenBranch => cursor > pcursor

\* An ADD reg+reg moved the cursor by 3.
C14_Witness ==
    /\ WasAddReg
    /\ status = "running"
    /\ cursor = pcursor + 3

(***************************************************************************)
(* C15.  No step limit: a backward BNZ can loop forever.  There is a       *)
(* well-formed program (version byte, MOVE imm of a nonzero word into a    *)
(* register, BNZ on that register to its own offset) whose run stays       *)
(* Running: once the run stands on such a BNZ, every step leaves it        *)
(* standing there, Running, so it never reaches Halted or Failed.          *)
(***************************************************************************)
\* The run is about to fetch a BNZ on a nonzero register whose target is
\* the BNZ's own offset.
C15_SelfLoop ==
    /\ status = "running"
    /\ HasWord(cursor + 2)
    /\ ByteAt(cursor) \div 8 = 3
    /\ (ByteAt(cursor + 1) % 32) \in DOMAIN file
    /\ file[ByteAt(cursor + 1) % 32] # Zero
    /\ WordAt(cursor + 2) = [hi |-> 0, lo |-> cursor]

C15_LoopsForever == [][C15_SelfLoop => C15_SelfLoop']_vars

\* The loop was followed for as many iterations as the model follows a run.
C15_Witness ==
    /\ C15_SelfLoop
    /\ WasBnz
    /\ pcursor = cursor
    /\ pfile = file
    /\ steps = MaxSteps

(***************************************************************************)
(* C16.  The register file is mutated only by MOVE/ADD: every HALT step    *)
(* and every BNZ step leaves it as it was, every successful MOVE or ADD    *)
(* changes at most its destination register, and a register is present    *)
(* if and only if an earlier successful MOVE or ADD had it as destination. *)
(***************************************************************************)
\* At most register r differs between pfile and file.
C16_AtMost(r) ==
    /\ DOMAIN file = DOMAIN pfile \cup {r}
    /\ \A x \in DOMAIN pfile \ {r} : file[x] = pfile[x]

C16_FileFrame ==
    /\ (WasHalt \/ WasBnz) => file = pfile
    /\ (Ran /\ status = "running" /\ (WasMovReg \/ WasMovImm \/ WasAddImm)) =>
           C16_AtMost(LowReg) /\ log # <<>> /\ log[Len(log)] = <<LowReg, file[LowReg]>>
    /\ (Ran /\ status = "running" /\ WasAddReg) =>
           LET d == ByteAt(pcursor + 2) \div 8
           IN  C16_AtMost(d) /\ log # <<>> /\ log[Len(log)] = <<d, file[d]>>
    /\ DOMAIN file = { log[i][1] : i \in 1..Len(log) }
    /\ DOMAIN pfile \subseteq DOMAIN file

\* A MOVE or ADD wrote a second register and left the first as it was.
C16_Witness ==
    /\ Ran
    /\ status = "running"
    /\ WasMovImm
    /\ Cardinality(DOMAIN pfile) = 1
    /\ Cardinality(DOMAIN file) = 2
    /\ \A x \in DOMAIN pfile : file[x] = pfile[x]

(***************************************************************************)
(* C17.  The version gate runs once: offset 0 is a valid jump target, and  *)
(* after a taken BNZ with target 0 the version byte is fetched and         *)
(* dispatched as an ordinary descriptor (byte 1 is MOVE reg->reg with      *)
(* source high bits 01), the version not being checked again;              *)
(* MissingVersion and VersionMismatch never occur after the first fetch.   *)
(***************************************************************************)
C17_GateRunsOnce ==
    /\ Ran => result.kind \notin {"MissingVersion", "VersionMismatch"}
    /\ (C6_Taken /\ WordAt(pcursor + 2) = Zero) => status = "running" /\ cursor = 0
    /\ (Ran /\ pcursor = 0) =>
           /\ Desc = 1
           /\ IF ~HasOperand THEN Failed(UnexpectedEndOfProgram)
              ELSE LET src == 8 + Operand \div 32
                   IN  IF ~Present(src) THEN Failed(NoSuchRegister(src))
                       ELSE /\ status = "running"
                            /\ cursor = 2
                            /\ OnlyWrote(Operand % 32, pfile[src])

\* The version byte was executed as a MOVE from R8 after a jump to offset 0.
C17_Witness ==
    /\ Ran
    /\ pcursor = 0
    /\ status = "running"
    /\ cursor = 2
    /\ back

(***************************************************************************)
(* C18.  The destination of ADD reg+reg is the top 5 bits of its third     *)
(* byte c: the outcome is that of destination c >> 3 whatever the low 3    *)
(* bits of c are, and they cause no error.                                 *)
(***************************************************************************)
C18_AddRegDest ==
    (WasAddReg /\ HasByte(pcursor + 2)) =>
        IF Present(PackedReg) /\ Present(LowReg)
        THEN /\ status = "running"
             /\ cursor = pcursor + 3
             /\ OnlyWrote(ByteAt(pcursor + 2) \div 8, AddMod32(pfile[PackedReg], pfile[LowReg]))
        ELSE status = "failed" /\ result.kind = "NoSuchRegister"

\* An ADD reg+reg with all three low bits of its third byte set has run.
C18_Witness ==
    /\ WasAddReg
    /\ HasByte(pcursor + 2)
    /\ ByteAt(pcursor + 2) % 8 = 7
    /\ status = "running"
    /\ OnlyWrote(0, AddMod32(pfile[PackedReg], pfile[LowReg]))

(***************************************************************************)
(* C19.  A failing instruction is all-or-nothing on the register file:     *)
(* whatever the error kind, the register file at the failure is the one    *)
(* the step began with.                                                    *)
(***************************************************************************)
C19_FailureKeepsFile ==
    status = "failed" =>
        IF Ran
        THEN /\ file = pfile
             /\ result.kind \in {"UnexpectedEndOfProgram", "TruncatedU32", "NoSuchRegister",
                                 "NoSuchInstruction", "NowhereToJump"}
        ELSE file = EmptyFile

\* A MOVE imm failed on its word after its destination byte was read.
C19_Witness ==
    /\ WasMovImm
    /\ HasOperand
    /\ pfile # EmptyFile
    /\ Failed(TruncatedU32)
    /\ file = pfile

(***************************************************************************)
(* C20.  A run in which no BNZ is taken to a target at or before its own   *)
(* descriptor offset terminates: its cursor grows from step to step, so    *)
(* it reaches Halted or Failed after successfully executing at most        *)
(* len(Program) - 1 instructions; a program with no taken branch executes  *)
(* HALT or fails, and running off the end is an error.                     *)
(***************************************************************************)
\* The number of instructions executed successfully so far.
C20_Executed == IF status = "failed" /\ Ran THEN steps - 1 ELSE steps

\* The claim's bound as stated: violated by the empty buffer, whose run fails
\* MissingVersion having executed no instruction, len(Program) - 1 being -1.
C20_AtMostLenMinusOne ==
    (~back /\ status \in {"halted", "failed"}) => C20_Executed <= Len(prog) - 1

\* len(Program) - 1, and 0 for the empty buffer.
C20_Limit == IF prog = <<>> THEN 0 ELSE Len(prog) - 1

\* C20 amended: a run in which no BNZ is taken to a target at or before its
\* own descriptor offset terminates.  Its cursor strictly increases from
\* step to step, it has executed at most len(Program) - 1 instructions (none
\* for the empty buffer), so the loop can always begin its next iteration,
\* it ends Halted only by HALT, and running off the end is the error
\* UnexpectedEndOfProgram.
C20_Bounded ==
    ~back =>
        /\ C20_Executed <= C20_Limit
        /\ (Ran /\ status = "running") => cursor > pcursor
        /\ status = "running" => Fetching
        /\ status = "halted" => WasHalt
        /\ (Ran /\ pcursor >= Len(prog)) => Failed(UnexpectedEndOfProgram)

\* A run without any backward branch ran three instructions and then off
\* the end of the buffer.
C20_Witness ==
    /\ ~back
    /\ Failed(UnexpectedEndOfProgram)
    /\ pcursor = Len(prog)
    /\ C20_Executed >= 3

====
